---- MODULE Spec2Model ----
(***************************************************************************)
(* gfwlist2pac: the rule parser (parseGFWListRules), the lookup-table      *)
(* builder (generatePAC) and the decision function the generated PAC file  *)
(* contains (FindProxyForURL), modelled from src/gfwlist2pac.ts.           *)
(*                                                                         *)
(* A JavaScript string is a sequence of one-character strings, so that     *)
(* trimming, prefix tests, splitting, lower-casing and the regular         *)
(* expressions are computed character by character as the code does.       *)
(* A JavaScript Set is a TLA+ set: the code only adds to its sets and only *)
(* scans them for the existence of a matching element.                     *)
(***************************************************************************)
EXTENDS Integers, Sequences, FiniteSets, TLC

\* ------------------------------------------------------------------------
\* Bound of the model: the number of raw lines of input (feed and user
\* rules together).
MaxLines == 2

\* ------------------------------------------------------------------------
\* Characters

LowerLetters == <<"a","b","c","d","e","f","g","h","i","j","k","l","m",
                  "n","o","p","q","r","s","t","u","v","w","x","y","z">>

UpperLetters == <<"A","B","C","D","E","F","G","H","I","J","K","L","M",
                  "N","O","P","Q","R","S","T","U","V","W","X","Y","Z">>

Digits == <<"0","1","2","3","4","5","6","7","8","9">>

Range(f) == {f[i] : i \in DOMAIN f}

LetterSet == Range(LowerLetters) \cup Range(UpperLetters)

DigitSet == Range(Digits)

IsLetter(c) == c \in LetterSet

IsDigit(c) == c \in DigitSet

IsAlnum(c) == IsLetter(c) \/ IsDigit(c)

\* the character class [-a-zA-Z0-9.]
IsDomainChar(c) == IsAlnum(c) \/ c = "-" \/ c = "."

IsSpace(c) == c \in {" ", "\t", "\r"}

toLowerChar(c) ==
    IF c \in LetterSet /\ c \notin Range(LowerLetters)
    THEN LowerLetters[CHOOSE i \in DOMAIN UpperLetters : UpperLetters[i] = c]
    ELSE c

\* ------------------------------------------------------------------------
\* String methods of the JavaScript runtime the code calls

\* variant: the string is stored and looked up as written
toLowerCase_Identity(s) == s

toLowerCase(s) == [i \in 1..Len(s) |-> toLowerChar(s[i])]

startsWith(s, p) == Len(p) <= Len(s) /\ SubSeq(s, 1, Len(p)) = p

endsWith(s, p) == Len(p) <= Len(s) /\ SubSeq(s, Len(s) - Len(p) + 1, Len(s)) = p

\* s.substring(n): the characters from the 0-based index n on
substring(s, n) == SubSeq(s, (IF n > Len(s) THEN Len(s) ELSE n) + 1, Len(s))

\* variant: the delimiters are kept
sliceInner_Keep(s) == s

\* s.slice(1, -1)
sliceInner(s) == SubSeq(s, 2, Len(s) - 1)

\* s.substr(start): a negative start counts from the end, clamped at 0
substr(s, start) ==
    LET from == IF start < 0
                THEN (IF Len(s) + start < 0 THEN 0 ELSE Len(s) + start)
                ELSE start
    IN  SubSeq(s, from + 1, Len(s))

\* s.trim()
trim(s) ==
    LET keep == {i \in 1..Len(s) : ~IsSpace(s[i])}
    IN  IF keep = {} THEN <<>>
        ELSE SubSeq(s, CHOOSE i \in keep : \A j \in keep : i <= j,
                       CHOOSE i \in keep : \A j \in keep : j <= i)

\* variant: s.indexOf(k) === 0, the keyword only at the start of the host
includes_PrefixOnly(s, k) == startsWith(s, k)

\* variant: the truthiness of s.indexOf(k), which is false only for index 0
includes_Truthy(s, k) == ~startsWith(s, k)

\* s.indexOf(k) !== -1
includes(s, k) ==
    \E i \in 0..(Len(s) - Len(k)) : SubSeq(s, i + 1, i + Len(k)) = k

\* s.split(sep)[0] for a one-character separator
splitHead(s, sep) ==
    LET hits == {i \in 1..Len(s) : s[i] = sep}
    IN  IF hits = {} THEN s
        ELSE SubSeq(s, 1, (CHOOSE i \in hits : \A j \in hits : i <= j) - 1)

\* s.split(".")
RECURSIVE split(_)
split(s) ==
    LET hits == {i \in 1..Len(s) : s[i] = "."}
    IN  IF hits = {} THEN <<s>>
        ELSE LET i == CHOOSE i \in hits : \A j \in hits : i <= j
             IN  <<SubSeq(s, 1, i - 1)>> \o split(SubSeq(s, i + 1, Len(s)))

\* parts.slice(-2).join(".") for parts.length >= 2
lastTwo(parts) == parts[Len(parts) - 1] \o <<".">> \o parts[Len(parts)]

\* ------------------------------------------------------------------------
\* Regular expressions of the parser

\* /^[a-zA-Z0-9][-a-zA-Z0-9.]*\.[a-zA-Z]{2,}$/.test(domain)
isValidDomain(domain) ==
    /\ Len(domain) >= 1
    /\ IsAlnum(domain[1])
    /\ \E i \in 2..Len(domain) :
          /\ domain[i] = "."
          /\ \A j \in 2..(i - 1) : IsDomainChar(domain[j])
          /\ Len(domain) - i >= 2
          /\ \A j \in (i + 1)..Len(domain) : IsLetter(domain[j])

\* /^[a-zA-Z0-9][-a-zA-Z0-9.]*[a-zA-Z0-9]$/.test(rule)
isBareToken(rule) ==
    /\ Len(rule) >= 2
    /\ IsAlnum(rule[1])
    /\ IsAlnum(rule[Len(rule)])
    /\ \A j \in 2..(Len(rule) - 1) : IsDomainChar(rule[j])

\* the length of the longest prefix of a string of length n that reaches
\* none of the positions in stops
RunLen(n, stops) ==
    IF stops = {} THEN n
    ELSE (CHOOSE i \in stops : \A j \in stops : i <= j) - 1

NotSlashCaret(c) == c # "/" /\ c # "^"

\* variant: the captured group runs to the end of the rule
urlMatch_WholeRest(s) ==
    LET low == toLowerCase(s)
    IN  IF startsWith(low, <<"h","t","t","p",":","/","/">>) THEN substring(s, 7)
        ELSE IF startsWith(low, <<"h","t","t","p","s",":","/","/">>)
        THEN substring(s, 8)
        ELSE <<>>

\* rule.substring(1).match(/^https?:\/\/([^\/\^]+)/i): the captured group,
\* or <<>> when there is no match (the group is never empty on a match)
urlMatch(s) ==
    LET low  == toLowerCase(s)
        http == <<"h","t","t","p",":","/","/">>
        https == <<"h","t","t","p","s",":","/","/">>
        skip == IF startsWith(low, http) THEN Len(http)
                ELSE IF startsWith(low, https) THEN Len(https)
                ELSE 0
        rest == SubSeq(s, skip + 1, Len(s))
    IN  IF skip = 0 THEN <<>>
        ELSE SubSeq(rest, 1, RunLen(Len(rest), {i \in 1..Len(rest) : ~NotSlashCaret(rest[i])}))

\* variant: the group also captures the wildcard label
domainMatch_KeepWildcard(rule) ==
    LET s    == IF startsWith(rule, <<"*", ".">>) THEN substring(rule, 2) ELSE rule
        run  == RunLen(Len(s), {i \in 1..Len(s) : ~IsDomainChar(s[i])})
        dots == {i \in 2..run : /\ s[i] = "."
                                /\ i + 2 <= Len(s)
                                /\ IsLetter(s[i + 1])
                                /\ IsLetter(s[i + 2])}
    IN  IF Len(s) = 0 \/ ~IsAlnum(s[1]) \/ dots = {} THEN <<>>
        ELSE LET d    == CHOOSE i \in dots : \A j \in dots : j <= i
                 tail == SubSeq(s, d + 1, Len(s))
                 n    == d + RunLen(Len(tail), {i \in 1..Len(tail) : ~IsLetter(tail[i])})
             IN  SubSeq(rule, 1, n + Len(rule) - Len(s))

\* rule.match(/^(?:\*\.)?([a-zA-Z0-9][-a-zA-Z0-9.]*\.[a-zA-Z]{2,})/): the
\* captured group, or <<>> when there is no match.  The greedy star backs
\* off to the last dot of the run that two letters follow, and the letters
\* after it are taken greedily.
domainMatch(rule) ==
    LET s    == IF startsWith(rule, <<"*", ".">>) THEN substring(rule, 2) ELSE rule
        run  == RunLen(Len(s), {i \in 1..Len(s) : ~IsDomainChar(s[i])})
        dots == {i \in 2..run : /\ s[i] = "."
                                /\ i + 2 <= Len(s)
                                /\ IsLetter(s[i + 1])
                                /\ IsLetter(s[i + 2])}
    IN  IF Len(s) = 0 \/ ~IsAlnum(s[1]) \/ dots = {} THEN <<>>
        ELSE LET d    == CHOOSE i \in dots : \A j \in dots : j <= i
                 tail == SubSeq(s, d + 1, Len(s))
             IN  SubSeq(s, 1, d + RunLen(Len(tail), {i \in 1..Len(tail) : ~IsLetter(tail[i])}))

\* ------------------------------------------------------------------------
\* parseGFWListRules

\* const rules: ParsedRules = { ... new Set() ... }
EmptyRules ==
    [domains             |-> {},
     domainSuffixes      |-> {},
     domainKeywords      |-> {},
     urlPatterns         |-> {},
     regexPatterns       |-> {},
     whiteDomains        |-> {},
     whiteDomainSuffixes |-> {}]

\* blank lines and comments are skipped before anything is counted
isSkipped(line) ==
    line = <<>> \/ startsWith(line, <<"!">>) \/ startsWith(line, <<"[">>)

\* the @@ prefix sets isWhite and is cut off
isWhiteLine(line) == startsWith(line, <<"@", "@">>)

stripWhite(line) == IF isWhiteLine(line) THEN substring(line, 2) ELSE line

isRegexRule(rule) == startsWith(rule, <<"/">>) /\ endsWith(rule, <<"/">>)

\* rule.substring(2).split("/")[0].split("^")[0]
suffixCandidate(rule) == splitHead(splitHead(substring(rule, 2), "/"), "^")

\* variant: the container is replaced by the new entry
addTo_Replace(rules, field, entry) == [rules EXCEPT ![field] = {entry}]

\* rules.<field>.add(entry)
addTo(rules, field, entry) == [rules EXCEPT ![field] = @ \cup {entry}]

\* One iteration of the loop over the lines: the rule set after rawLine.
parseRule(rules, rawLine) ==
    LET line    == trim(rawLine)
        isWhite == isWhiteLine(line)
        rule    == stripWhite(line)
    IN  IF isSkipped(line) THEN rules
        ELSE IF isRegexRule(rule)
        THEN addTo(rules, "regexPatterns", sliceInner(rule))
        ELSE IF startsWith(rule, <<"|", "|">>)
        THEN LET domain == suffixCandidate(rule)
             IN  IF domain # <<>> /\ isValidDomain(domain)
                 THEN IF isWhite
                      THEN addTo(rules, "whiteDomainSuffixes", toLowerCase(domain))
                      ELSE addTo(rules, "domainSuffixes", toLowerCase(domain))
                 ELSE rules
        ELSE IF startsWith(rule, <<"|">>)
        THEN LET domain == urlMatch(substring(rule, 1))
             IN  IF domain # <<>> /\ isValidDomain(domain)
                 THEN IF isWhite
                      THEN addTo(rules, "whiteDomains", toLowerCase(domain))
                      ELSE addTo(rules, "domains", toLowerCase(domain))
                 ELSE rules
        ELSE IF isBareToken(rule)
        THEN IF isValidDomain(rule)
             THEN IF isWhite
                  THEN addTo(rules, "whiteDomainSuffixes", toLowerCase(rule))
                  ELSE addTo(rules, "domainSuffixes", toLowerCase(rule))
             ELSE addTo(rules, "domainKeywords", toLowerCase(rule))
        ELSE LET domain == domainMatch(rule)
             IN  IF domain # <<>>
                 THEN IF isWhite
                      THEN addTo(rules, "whiteDomainSuffixes", toLowerCase(domain))
                      ELSE addTo(rules, "domainSuffixes", toLowerCase(domain))
                 ELSE rules

\* The whole loop: the rule set of a content given as its lines.
RECURSIVE parseFrom(_, _)
parseFrom(rules, lines) ==
    IF lines = <<>> THEN rules
    ELSE parseFrom(parseRule(rules, Head(lines)), Tail(lines))

parseGFWListRules(lines) == parseFrom(EmptyRules, lines)

\* ------------------------------------------------------------------------
\* main: the user rules and the merged content

\* content.split("\n").filter((line) => line.trim())
readUserRules(fileLines) == SelectSeq(fileLines, LAMBDA l : trim(l) # <<>>)

\* (gfwlistContent + "\n" + userRulesContent.join("\n")).split("\n"): joining
\* no user rules gives the empty string, which is one more, empty, line
allContent(feedLines, userRulesContent) ==
    feedLines \o (IF userRulesContent = <<>> THEN << <<>> >> ELSE userRulesContent)

\* ------------------------------------------------------------------------
\* generatePAC: the lookup tables written into the PAC file

\* the entries of a suffix set grouped under their last two labels
groupByTld(suffixes) ==
    LET grouped == {d \in suffixes : Len(split(d)) >= 2}
        tlds    == {lastTwo(split(d)) : d \in grouped}
    IN  [tld \in tlds |-> {d \in grouped : lastTwo(split(d)) = tld}]

generatePAC(rules) ==
    [domainMap         |-> groupByTld(rules.domainSuffixes),
     whiteMap          |-> groupByTld(rules.whiteDomainSuffixes),
     exactDomains      |-> rules.domains,
     whiteExactDomains |-> rules.whiteDomains,
     keywords          |-> rules.domainKeywords]

NoPAC ==
    [domainMap         |-> <<>>,
     whiteMap          |-> <<>>,
     exactDomains      |-> {},
     whiteExactDomains |-> {},
     keywords          |-> {}]

\* ------------------------------------------------------------------------
\* The PAC runtime: helper functions the browser provides

\* an address is four octets; NoAddr is the null of a failed resolution
NoAddr == <<>>

RECURSIVE digitsValue(_)
digitsValue(s) ==
    IF s = <<>> THEN 0
    ELSE 10 * digitsValue(SubSeq(s, 1, Len(s) - 1))
         + (CHOOSE i \in DOMAIN Digits : Digits[i] = s[Len(s)]) - 1

isIPLiteral(host) ==
    LET parts == split(host)
    IN  /\ Len(parts) = 4
        /\ \A i \in 1..4 :
              /\ parts[i] # <<>>
              /\ Len(parts[i]) <= 3
              /\ \A j \in 1..Len(parts[i]) : IsDigit(parts[i][j])
              /\ digitsValue(parts[i]) <= 255

\* dnsResolve(host): a literal address is its own resolution, any other
\* name resolves to what the resolver of the moment answers
dnsResolve(host, answer) ==
    IF isIPLiteral(host)
    THEN [i \in 1..4 |-> digitsValue(split(host)[i])]
    ELSE answer

RECURSIVE BitAnd(_, _)
BitAnd(a, b) ==
    IF a = 0 \/ b = 0 THEN 0
    ELSE (a % 2) * (b % 2) + 2 * BitAnd(a \div 2, b \div 2)

\* isInNet(ip, net, mask)
isInNet(ip, net, mask) ==
    /\ ip # NoAddr
    /\ \A i \in 1..4 : BitAnd(ip[i], mask[i]) = BitAnd(net[i], mask[i])

\* isPlainHostName(host): no dot in the name
isPlainHostName(host) == \A i \in 1..Len(host) : host[i] # "."

\* shExpMatch(host, "*.local")
shExpMatchLocal(host) == endsWith(host, <<".", "l", "o", "c", "a", "l">>)

\* ------------------------------------------------------------------------
\* FindProxyForURL of the generated PAC file

proxy == "__PROXY__"

direct == "DIRECT"

\* the test that returns direct for local addresses
isLocal(host, answer) ==
    \/ isPlainHostName(host)
    \/ shExpMatchLocal(host)
    \/ isInNet(dnsResolve(host, answer), <<10, 0, 0, 0>>, <<255, 0, 0, 0>>)
    \/ isInNet(dnsResolve(host, answer), <<172, 16, 0, 0>>, <<255, 240, 0, 0>>)
    \/ isInNet(dnsResolve(host, answer), <<192, 168, 0, 0>>, <<255, 255, 0, 0>>)
    \/ isInNet(dnsResolve(host, answer), <<127, 0, 0, 0>>, <<255, 255, 255, 0>>)

\* variant: host.substr(host.length - d.length) === "." + d
isSubdomainOf_NoDot(host, d) == substr(host, Len(host) - Len(d)) = <<".">> \o d

\* host.substr(host.length - d.length - 1) === "." + d
isSubdomainOf(host, d) == substr(host, Len(host) - Len(d) - 1) = <<".">> \o d

\* the entries of a grouped table the host is probed against, if any
bucket(map, host) ==
    LET parts == split(host)
    IN  IF Len(parts) >= 2 /\ lastTwo(parts) \in DOMAIN map
        THEN map[lastTwo(parts)]
        ELSE {}

\* variant: the block tables are consulted before the whitelist tables
FindProxyForURL_BlockFirst(pac, rawHost, answer) ==
    LET host == toLowerCase(rawHost)
    IN  IF isLocal(host, answer) THEN direct
        ELSE IF host \in pac.exactDomains THEN proxy
        ELSE IF \E d \in bucket(pac.domainMap, host) :
                    host = d \/ isSubdomainOf(host, d)
        THEN proxy
        ELSE IF host \in pac.whiteExactDomains THEN direct
        ELSE IF \E d \in bucket(pac.whiteMap, host) :
                    host = d \/ isSubdomainOf(host, d)
        THEN direct
        ELSE IF \E k \in pac.keywords : includes(host, k) THEN proxy
        ELSE direct

FindProxyForURL(pac, rawHost, answer) ==
    LET host == toLowerCase(rawHost)
    IN  IF isLocal(host, answer) THEN direct
        ELSE IF host \in pac.whiteExactDomains THEN direct
        ELSE IF \E d \in bucket(pac.whiteMap, host) :
                    host = d \/ isSubdomainOf(host, d)
        THEN direct
        ELSE IF host \in pac.exactDomains THEN proxy
        ELSE IF \E d \in bucket(pac.domainMap, host) : host = d THEN proxy
        ELSE IF \E d \in bucket(pac.domainMap, host) : isSubdomainOf(host, d)
        THEN proxy
        ELSE IF \E k \in pac.keywords : includes(host, k) THEN proxy
        ELSE direct

\* ------------------------------------------------------------------------
\* The inputs of the model

\* the raw lines a feed or a user-rules file is made of
LineUniverse ==
    {
      \* ||ad.cc: suffix block
      <<"|", "|", "a", "d", ".", "c", "c">>,
      \* @@||ad.cc: suffix whitelist
      <<"@", "@", "|", "|", "a", "d", ".", "c", "c">>,
      \* |http://B.ad.cc/p: exact block, upper case, with a path
      <<"|", "h", "t", "t", "p", ":", "/", "/", "B", ".", "a", "d", ".", "c", "c", "/", "p">>,
      \* @@|https://b.ad.cc^: exact whitelist
      <<"@", "@", "|", "h", "t", "t", "p", "s", ":", "/", "/", "b", ".", "a", "d", ".", "c", "c", "^">>,
      \* ad: a token that is no domain, a keyword
      <<"a", "d">>,
      \* @@ad: such a token behind the whitelist marker
      <<"@", "@", "a", "d">>,
      \* 27: a keyword that occurs in dotted-decimal hosts
      <<"2", "7">>,
      \* @@/ad/: a regex behind the whitelist marker
      <<"@", "@", "/", "a", "d", "/">>,
      \* ||ad.c^p: || form, candidate not a valid domain
      <<"|", "|", "a", "d", ".", "c", "^", "p">>,
      \* |http://ad.c/: | form, host not a valid domain
      <<"|", "h", "t", "t", "p", ":", "/", "/", "a", "d", ".", "c", "/">>,
      \* *.B.AD.cc/p: embedded domain, upper case
      <<"*", ".", "B", ".", "A", "D", ".", "c", "c", "/", "p">>,
      \* bad.cc between white space: a token that is a domain
      <<" ", "b", "a", "d", ".", "c", "c", "\r">>,
      \* ad.c/x: no embedded domain
      <<"a", "d", ".", "c", "/", "x">>,
      \* a: one character
      <<"a">>,
      \* !ad: comment
      <<"!", "a", "d">>
    }

\* the hosts FindProxyForURL is asked about
HostUniverse ==
    {
      \* ad.cc
      <<"a", "d", ".", "c", "c">>,
      \* b.ad.cc
      <<"b", ".", "a", "d", ".", "c", "c">>,
      \* C.B.ad.cc
      <<"C", ".", "B", ".", "a", "d", ".", "c", "c">>,
      \* bad.cc
      <<"b", "a", "d", ".", "c", "c">>,
      \* e.cc
      <<"e", ".", "c", "c">>,
      \* ad.local
      <<"a", "d", ".", "l", "o", "c", "a", "l">>,
      \* adpc
      <<"a", "d", "p", "c">>,
      \* 127.0.0.1
      <<"1", "2", "7", ".", "0", ".", "0", ".", "1">>,
      \* 127.1.2.3
      <<"1", "2", "7", ".", "1", ".", "2", ".", "3">>,
      \* 10.27.0.1
      <<"1", "0", ".", "2", "7", ".", "0", ".", "1">>,
      \* 172.27.0.1
      <<"1", "7", "2", ".", "2", "7", ".", "0", ".", "1">>,
      \* 172.32.27.1
      <<"1", "7", "2", ".", "3", "2", ".", "2", "7", ".", "1">>,
      \* 192.168.27.1
      <<"1", "9", "2", ".", "1", "6", "8", ".", "2", "7", ".", "1">>
    }

\* what the resolver may answer for a name: nothing, or a private address
AnswerUniverse == {NoAddr, <<10, 1, 2, 3>>}

SeqsUpTo(S, lo, hi) == UNION {[1..n -> S] : n \in lo..hi}

\* ------------------------------------------------------------------------
\* The run of main as a state machine

VARIABLES
    feed,            \* gfwlistContent, as its lines
    user,            \* the lines of the user-rules file (none: no file)
    pc,              \* "main", "parse", "generate", "pac", "answered"
    lines,           \* allContent.split("\n")
    idx,             \* the number of lines the loop has consumed
    processedCount,  \* the counter of parseGFWListRules
    rules,           \* the ParsedRules being filled
    pac,             \* the tables of the generated PAC file
    host,            \* the host of the last call of FindProxyForURL
    answer,          \* what the resolver answered during that call
    result           \* what that call returned

vars == <<feed, user, pc, lines, idx, processedCount, rules, pac, host, answer, result>>

Init ==
    /\ feed \in SeqsUpTo(LineUniverse, 1, MaxLines)
    /\ user \in SeqsUpTo(LineUniverse, 0, MaxLines - Len(feed))
    /\ pc = "main"
    /\ lines = <<>>
    /\ idx = 0
    /\ processedCount = 0
    /\ rules = EmptyRules
    /\ pac = NoPAC
    /\ host = <<>>
    /\ answer = NoAddr
    /\ result = "none"

\* main: read the user rules, merge them behind the feed, enter the parser
MergeRules ==
    /\ pc = "main"
    /\ lines' = allContent(feed, readUserRules(user))
    /\ idx' = 0
    /\ processedCount' = 0
    /\ rules' = EmptyRules
    /\ pc' = "parse"
    /\ UNCHANGED <<feed, user, pac, host, answer, result>>

\* parseGFWListRules: one iteration of the loop over the lines
ParseLine ==
    /\ pc = "parse"
    /\ idx < Len(lines)
    /\ idx' = idx + 1
    /\ rules' = parseRule(rules, lines[idx + 1])
    /\ processedCount' = IF isSkipped(trim(lines[idx + 1]))
                         THEN processedCount
                         ELSE processedCount + 1
    /\ UNCHANGED <<feed, user, pc, lines, pac, host, answer, result>>

\* parseGFWListRules returns
ParseDone ==
    /\ pc = "parse"
    /\ idx = Len(lines)
    /\ pc' = "generate"
    /\ UNCHANGED <<feed, user, lines, idx, processedCount, rules, pac, host, answer, result>>

\* main: generatePAC and the write of the PAC file
GeneratePAC ==
    /\ pc = "generate"
    /\ pac' = generatePAC(rules)
    /\ pc' = "pac"
    /\ UNCHANGED <<feed, user, lines, idx, processedCount, rules, host, answer, result>>

\* a browser calls FindProxyForURL of the PAC file for a host
Query ==
    /\ pc = "pac"
    /\ \E h \in HostUniverse, a \in AnswerUniverse :
          /\ host' = h
          /\ answer' = IF isIPLiteral(toLowerCase(h)) THEN NoAddr ELSE a
          /\ result' = FindProxyForURL(pac, h, a)
    /\ pc' = "answered"
    /\ UNCHANGED <<feed, user, lines, idx, processedCount, rules, pac>>

\* the browser has used the answer; the PAC file waits for the next call
Return ==
    /\ pc = "answered"
    /\ pc' = "pac"
    /\ host' = <<>>
    /\ answer' = NoAddr
    /\ result' = "none"
    /\ UNCHANGED <<feed, user, lines, idx, processedCount, rules, pac>>

Next == MergeRules \/ ParseLine \/ ParseDone \/ GeneratePAC \/ Query \/ Return

Spec == Init /\ [][Next]_vars

TypeOK ==
    /\ pc \in {"main", "parse", "generate", "pac", "answered"}
    /\ idx \in 0..Len(lines)
    /\ processedCount \in 0..idx
    /\ result \in {"none", direct, proxy}

\* ------------------------------------------------------------------------
\* Notions the properties are stated in

\* host names are compared without regard to letter case
Lowered == toLowerCase(host)

\* h and every suffix of h that starts behind one of its dots
LabelSuffixes(h) ==
    {h} \cup {SubSeq(h, i + 1, Len(h)) : i \in {j \in 1..Len(h) : h[j] = "."}}

\* h is d or a dot-delimited subdomain of d
DotSuffixOf(h, d) == h = d \/ endsWith(h, <<".">> \o d)

\* k occurs in h as a contiguous substring
HasInfix(h, k) ==
    \E i \in 1..(Len(h) + 1) : \E j \in (i - 1)..Len(h) : SubSeq(h, i, j) = k

\* the address of the host of the last call
Address == dnsResolve(Lowered, answer)

\* 127.0.0.0/8, 10.0.0.0/8, 172.16.0.0/12, 192.168.0.0/16
InLocalRanges(a) ==
    /\ a # NoAddr
    /\ \/ a[1] = 127
       \/ a[1] = 10
       \/ a[1] = 172 /\ a[2] \in 16..31
       \/ a[1] = 192 /\ a[2] = 168

\* the host of the last call is local or private
LocalPrivate ==
    \/ \A i \in 1..Len(Lowered) : Lowered[i] # "."
    \/ endsWith(Lowered, <<".", "l", "o", "c", "a", "l">>)
    \/ InLocalRanges(Address)

\* the host of the last call is whitelisted by the rule set
Whitelisted ==
    \/ Lowered \in rules.whiteDomains
    \/ \E x \in LabelSuffixes(Lowered) : x \in rules.whiteDomainSuffixes

\* the host of the last call matches a block rule of the rule set
Blocked ==
    \/ Lowered \in rules.domains
    \/ \E d \in rules.domainSuffixes : DotSuffixOf(Lowered, d)
    \/ \E k \in rules.domainKeywords : HasInfix(Lowered, k)

Answered == pc = "answered"

\* ------------------------------------------------------------------------
\* C1: Whitelist precedence.  A host that is in the exact-whitelist set, or
\* that has itself or a suffix behind one of its dots in the suffix-whitelist
\* set, is decided Direct, whatever block entries or keywords match it.
C1_WhitelistPrecedence ==
    Answered /\ Whitelisted => result = direct

\* a whitelisted host that a block rule matches as well
C1_Witness ==
    /\ Answered
    /\ Whitelisted
    /\ Blocked
    /\ ~LocalPrivate
    /\ result = direct

\* ------------------------------------------------------------------------
\* C2: Suffix-block completeness.  A host that is not local or private and
\* not whitelisted, and that is a suffix-block entry or ends with a dot and
\* the entry, is decided Proxy through the table grouped by the last two
\* labels.
C2_SuffixBlockComplete ==
    Answered /\ ~LocalPrivate /\ ~Whitelisted
        => \A d \in rules.domainSuffixes :
              DotSuffixOf(Lowered, d) => result = proxy

\* a proper subdomain of a three-label suffix entry that only the suffix
\* table can send to the proxy
C2_Witness ==
    /\ Answered
    /\ ~LocalPrivate
    /\ ~Whitelisted
    /\ \E d \in rules.domainSuffixes :
          /\ Len(split(d)) = 3
          /\ Lowered # d
          /\ DotSuffixOf(Lowered, d)
    /\ rules.domains = {}
    /\ rules.domainKeywords = {}
    /\ result = proxy

\* ------------------------------------------------------------------------
\* C3: Local/private shortcut.  A host without a dot, a host ending with
\* .local, and a host whose address is in 127.0.0.0/8, 10.0.0.0/8,
\* 172.16.0.0/12 or 192.168.0.0/16 is decided Direct whatever the rules are.
C3_LocalShortcut ==
    Answered /\ LocalPrivate => result = direct

\* the counterpart of C3 for the ranges the PAC file does test: every local
\* or private host outside 127.0.0.0/8, and 127.0.0.0/24, is decided Direct
C3_ShortcutOutsideLoopback ==
    Answered /\ LocalPrivate
        /\ (Address # NoAddr /\ Address[1] = 127
               => Address[2] = 0 /\ Address[3] = 0)
        => result = direct

\* ------------------------------------------------------------------------
\* C4: Exact rules are exact.

\* the lines of the input that are neither blank nor comments
RuleLines == SelectSeq(feed \o user, LAMBDA l : ~isSkipped(trim(l)))

\* the text of s up to its first '/' or '^'
UpToSlashCaret(s) ==
    LET stops == {i \in 1..Len(s) : s[i] \in {"/", "^"}}
    IN  IF stops = {} THEN s
        ELSE SubSeq(s, 1, (CHOOSE i \in stops : \A j \in stops : i <= j) - 1)

\* the host H of a line |http://H... or |https://H..., <<>> for other lines
ExactLineHost(l) ==
    IF \E p \in {<<"|","h","t","t","p",":","/","/">>,
                 <<"|","H","T","T","P",":","/","/">>} : startsWith(l, p)
    THEN UpToSlashCaret(SubSeq(l, 9, Len(l)))
    ELSE IF \E p \in {<<"|","h","t","t","p","s",":","/","/">>,
                      <<"|","H","T","T","P","S",":","/","/">>} : startsWith(l, p)
    THEN UpToSlashCaret(SubSeq(l, 10, Len(l)))
    ELSE <<>>

\* the input is one rule, an exact rule with a valid host
OnlyExactRule ==
    /\ Len(RuleLines) = 1
    /\ isValidDomain(ExactLineHost(trim(RuleLines[1])))

OnlyExactHost == toLowerCase(ExactLineHost(trim(RuleLines[1])))

Parsed == pc \in {"generate", "pac", "answered"}

\* C4 as claimed: the line |http(s)://H... with a valid H yields the
\* exact-block entry lowercase(H) and nothing else, and as the only rule it
\* sends the host lowercase(H) to the proxy and every other host direct.
C4_ExactOnlyAsClaimed ==
    OnlyExactRule =>
        /\ Parsed => rules = [EmptyRules EXCEPT !.domains = {OnlyExactHost}]
        /\ Answered => IF Lowered = OnlyExactHost
                       THEN result = proxy
                       ELSE result = direct

\* C4 as amended: the same, but the host lowercase(H) is decided Proxy only
\* if it is not local or private (it does not end with .local and does not
\* resolve into a loopback or private range).
C4_ExactOnly ==
    OnlyExactRule =>
        /\ Parsed => rules = [EmptyRules EXCEPT !.domains = {OnlyExactHost}]
        /\ Answered => IF Lowered = OnlyExactHost
                       THEN (~LocalPrivate => result = proxy)
                       ELSE result = direct

\* the exact rule has sent its host to the proxy
C4_Witness ==
    /\ OnlyExactRule
    /\ Answered
    /\ Lowered = OnlyExactHost
    /\ ~LocalPrivate
    /\ result = proxy

\* a subdomain of the host of the only, exact, rule goes direct
C4_WitnessSubdomain ==
    /\ OnlyExactRule
    /\ Answered
    /\ Lowered # OnlyExactHost
    /\ DotSuffixOf(Lowered, OnlyExactHost)
    /\ result = direct

\* ------------------------------------------------------------------------
\* C5: Keyword rules.

\* letters, digits, hyphens and dots, starting and ending alphanumeric
IsToken(t) ==
    /\ t # <<>>
    /\ \A i \in 1..Len(t) : IsDomainChar(t[i])
    /\ IsAlnum(t[1])
    /\ IsAlnum(t[Len(t)])

\* the tokens among the lines parsed so far that are not valid domains
KeywordTokens(minLen) ==
    {toLowerCase(trim(lines[i])) : i \in {j \in 1..idx :
        /\ IsToken(trim(lines[j]))
        /\ Len(trim(lines[j])) >= minLen
        /\ ~isValidDomain(trim(lines[j]))}}

KeywordRule(tokens) ==
    \A k \in tokens :
        /\ k \in rules.domainKeywords
        /\ Answered /\ ~LocalPrivate /\ ~Whitelisted /\ HasInfix(Lowered, k)
              => result = proxy

\* C5 as claimed: every token line that is not a valid domain becomes a
\* block keyword, and every host that is not local and not whitelisted and
\* contains the keyword anywhere is decided Proxy.
C5_KeywordAsClaimed == KeywordRule(KeywordTokens(1))

\* C5 as amended: the same for the token lines of at least two characters.
C5_Keyword == KeywordRule(KeywordTokens(2))

\* a keyword inside a label of the host, and nothing else that blocks it
C5_Witness ==
    /\ Answered
    /\ \E k \in KeywordTokens(2) :
          /\ HasInfix(Lowered, k)
          /\ ~startsWith(Lowered, k)
          /\ \A x \in LabelSuffixes(Lowered) : ~startsWith(x, k)
    /\ rules.domains = {}
    /\ rules.domainSuffixes = {}
    /\ result = proxy

\* ------------------------------------------------------------------------
\* C6: The decision is "DIRECT" or the proxy placeholder, and it is the
\* placeholder only for a host that is in the exact-block set, or is a
\* suffix-block entry or a dot-delimited subdomain of one, or contains a
\* block keyword.  A host that matches none of these is decided Direct.
C6_TwoValuedDirectDefault ==
    Answered =>
        /\ result \in {"DIRECT", "__PROXY__"}
        /\ result = "__PROXY__" => Blocked
        /\ ~Blocked => result = "DIRECT"

\* an unknown host under a rule set that blocks other hosts
C6_Witness ==
    /\ Answered
    /\ ~Blocked
    /\ ~LocalPrivate
    /\ ~Whitelisted
    /\ rules.domainSuffixes # {}
    /\ rules.domainKeywords # {}
    /\ result = "DIRECT"

\* ------------------------------------------------------------------------
\* C7: Whitelist-side attribution.

\* the lines the parser has consumed
Consumed == SubSeq(lines, 1, idx)

MarkedWhite(l) == startsWith(trim(l), <<"@", "@">>)

\* the containers FindProxyForURL sends to the proxy from
BlockSide(r) == <<r.domains, r.domainSuffixes, r.domainKeywords>>

\* the containers FindProxyForURL answers direct from
WhiteSide(r) == <<r.whiteDomains, r.whiteDomainSuffixes>>

\* C7: the block-side containers hold what the lines without @@ put there
\* and the whitelist-side containers what the lines with @@ put there: a
\* line that begins with @@ never adds a block-side entry.
C7_WhitelistAttribution ==
    /\ BlockSide(rules) =
          BlockSide(parseGFWListRules(SelectSeq(Consumed, LAMBDA l : ~MarkedWhite(l))))
    /\ WhiteSide(rules) =
          WhiteSide(parseGFWListRules(SelectSeq(Consumed, MarkedWhite)))

\* ------------------------------------------------------------------------
\* C8: Regex rules do not influence decisions.

\* the remainder of the line behind an optional @@
Remainder(l) ==
    IF MarkedWhite(l) THEN SubSeq(trim(l), 3, Len(trim(l))) ELSE trim(l)

\* a rule line whose remainder starts and ends with '/'
RegexLine(l) ==
    /\ ~isSkipped(trim(l))
    /\ Remainder(l) # <<>>
    /\ Remainder(l)[1] = "/"
    /\ Remainder(l)[Len(Remainder(l))] = "/"

\* the remainder without its delimiters
RegexPattern(l) == SubSeq(Remainder(l), 2, Len(Remainder(l)) - 1)

WithoutRegexLines(ls) == SelectSeq(ls, LAMBDA l : ~RegexLine(l))

\* C8: the regex lines are stored as patterns without their delimiters and
\* in no other container, and the decision for every host is the one of the
\* input without its regex lines.  (A call of FindProxyForURL leaves the rule
\* set alone, so the rule set is looked at in the states outside a call.)
C8_RegexInert ==
    /\ ~Answered =>
          /\ rules.regexPatterns =
                {RegexPattern(lines[i]) : i \in {j \in 1..idx : RegexLine(lines[j])}}
          /\ [rules EXCEPT !.regexPatterns = {}] =
                parseGFWListRules(WithoutRegexLines(Consumed))
    /\ Answered =>
          result = FindProxyForURL(
                       generatePAC(parseGFWListRules(WithoutRegexLines(lines))),
                       host, answer)

\* a host that a stored regex pattern would match goes direct
C8_Witness ==
    /\ Answered
    /\ \E r \in rules.regexPatterns : r # <<>> /\ HasInfix(Lowered, r)
    /\ \E i \in 1..idx : MarkedWhite(lines[i]) /\ RegexLine(lines[i])
    /\ ~LocalPrivate
    /\ result = direct

\* ------------------------------------------------------------------------
\* C9: Aggregation is an order-insensitive set union.

Perms(n) == {p \in [1..n -> 1..n] : \A i, j \in 1..n : p[i] = p[j] => i = j}

\* the rule set of the input whose feed is f and whose user rules are u
RulesOf(f, u) == parseGFWListRules(allContent(f, readUserRules(u)))

\* every way to order the lines of the input and to cut them into a feed of
\* at least one line and the user rules
Rearrangements ==
    LET all == feed \o user
        n   == Len(all)
    IN  {<<[i \in 1..k |-> all[p[i]]], [i \in 1..(n - k) |-> all[p[k + i]]]>> :
            p \in Perms(n), k \in 1..n}

\* the input with one of its lines repeated, in the feed or in the user rules
Duplications ==
    LET all == feed \o user
    IN  {<<feed \o <<all[i]>>, user>> : i \in 1..Len(all)}
        \cup {<<feed, user \o <<all[i]>>>> : i \in 1..Len(all)}

\* C9: the rule set is the same for every order of the lines, every cut of
\* them into feed and user rules and every repetition of a line, and the
\* decision is the same when feed and user rules change places.
C9_OrderInsensitive ==
    /\ pc = "generate" =>
          \A fu \in Rearrangements \cup Duplications : RulesOf(fu[1], fu[2]) = rules
    /\ Answered /\ user # <<>> =>
          result = FindProxyForURL(generatePAC(RulesOf(user, feed)), host, answer)

\* a block rule in the feed and its whitelist rule in the user rules: direct
C9_Witness ==
    /\ Answered
    /\ user # <<>>
    /\ Lowered \in rules.domainSuffixes
    /\ Lowered \in rules.whiteDomainSuffixes
    /\ ~LocalPrivate
    /\ RulesOf(feed, <<>>).whiteDomainSuffixes = {}
    /\ RulesOf(user, <<>>).domainSuffixes = {}
    /\ result = direct

\* two different entries of one container, from the feed and the user rules
C9_WitnessUnion ==
    /\ pc = "generate"
    /\ user # <<>>
    /\ Cardinality(rules.domainSuffixes) = 2

\* ------------------------------------------------------------------------
\* C10: Stored-domain invariant.

NoUpperCase(s) == \A i \in 1..Len(s) : s[i] \notin Range(UpperLetters)

\* starts alphanumeric, contains a dot, ends in a label of two or more letters
WellFormed(d) ==
    /\ d # <<>>
    /\ IsAlnum(d[1])
    /\ \E i \in 1..Len(d) :
          /\ d[i] = "."
          /\ Len(d) - i >= 2
          /\ \A j \in (i + 1)..Len(d) : d[j] \in LetterSet

StoredDomains ==
    rules.domains \cup rules.domainSuffixes
        \cup rules.whiteDomains \cup rules.whiteDomainSuffixes

\* a rule line of the ||, |scheme:// or fallback form whose candidate domain
\* is not valid
FailedCandidate(l) ==
    LET r == Remainder(l)
    IN  /\ ~isSkipped(trim(l))
        /\ ~RegexLine(l)
        /\ IF startsWith(r, <<"|", "|">>)
           THEN ~isValidDomain(UpToSlashCaret(SubSeq(r, 3, Len(r))))
           ELSE IF startsWith(r, <<"|">>)
           THEN ~isValidDomain(ExactLineHost(r))
           ELSE ~isBareToken(r) /\ domainMatch(r) = <<>>

\* the letter-case variants of a host: all lower, all upper, first flipped
UpperCased(s) ==
    [i \in 1..Len(s) |->
        IF s[i] \in Range(LowerLetters)
        THEN UpperLetters[CHOOSE k \in DOMAIN LowerLetters : LowerLetters[k] = s[i]]
        ELSE s[i]]

LowerCased(s) ==
    [i \in 1..Len(s) |->
        IF s[i] \in Range(UpperLetters)
        THEN LowerLetters[CHOOSE k \in DOMAIN UpperLetters : UpperLetters[k] = s[i]]
        ELSE s[i]]

CaseVariants(s) ==
    {UpperCased(s), LowerCased(s),
     [i \in 1..Len(s) |-> IF i = 1 THEN UpperCased(s)[i] ELSE LowerCased(s)[i]]}

\* C10: every stored domain is lower-case and valid, a line whose candidate
\* fails validation adds nothing, and the decision for a host is the one
\* for each of its letter-case variants.
C10_StoredDomains ==
    /\ \A d \in StoredDomains : NoUpperCase(d) /\ WellFormed(d) /\ isValidDomain(d)
    /\ ~Answered =>
          rules = parseGFWListRules(SelectSeq(Consumed, LAMBDA l : ~FailedCandidate(l)))
    /\ Answered =>
          \A v \in CaseVariants(host) : FindProxyForURL(pac, v, answer) = result

\* an upper-case line stored in lower case next to a line that failed
\* validation, and a mixed-case host sent to the proxy by the stored entry
C10_Witness ==
    /\ Answered
    /\ host # Lowered
    /\ \E i \in 1..idx : FailedCandidate(lines[i])
    /\ \E i \in 1..idx :
          /\ ~NoUpperCase(lines[i])
          /\ \E d \in rules.domainSuffixes : DotSuffixOf(Lowered, d)
    /\ rules.domains = {}
    /\ rules.domainKeywords = {}
    /\ result = proxy

\* ------------------------------------------------------------------------
\* C11: Parsing is idempotent.

\* The entries of a rule set written back as raw rule lines, each in the
\* rule form of the grammar that names its container: |http://d for an
\* exact domain, ||d for a suffix, the bare token for a keyword, /r/ for a
\* regex, and @@ in front of the whitelist forms.
writeRuleLines(r) ==
    {<<"|", "h", "t", "t", "p", ":", "/", "/">> \o d : d \in r.domains}
    \cup {<<"|", "|">> \o d : d \in r.domainSuffixes}
    \cup r.domainKeywords
    \cup {<<"/">> \o x \o <<"/">> : x \in r.regexPatterns}
    \cup {<<"@", "@", "|", "h", "t", "t", "p", ":", "/", "/">> \o d : d \in r.whiteDomains}
    \cup {<<"@", "@", "|", "|">> \o d : d \in r.whiteDomainSuffixes}

\* the sequences that list every element of the set S once
Listings(S) ==
    {q \in [1..Cardinality(S) -> S] : \A i, j \in DOMAIN q : q[i] = q[j] => i = j}

\* C11: the rule set written back as raw rule lines, in any order, and
\* parsed again is the same rule set, container by container.
C11_ParseIdempotent ==
    pc = "generate" =>
        \A q \in Listings(writeRuleLines(rules)) : parseGFWListRules(q) = rules

\* a rule set with entries in two containers, none of whose lines is written
\* back the way it was read
C11_Witness ==
    /\ pc = "generate"
    /\ Cardinality(writeRuleLines(rules)) = 2
    /\ rules.domains # {}
    /\ rules.domainSuffixes # {}
    /\ \A i \in 1..Len(lines) : lines[i] \notin writeRuleLines(rules)

====
